---------------------------- MODULE Spec2Model ----------------------------
(***************************************************************************)
(* Model of src/draw.ts: the seeded stream (createSeededRandom), the       *)
(* weighted sampler (weightedRandomDraw), the tiered draw (conductDraw)    *)
(* and the part of main that feeds them.                                   *)
(*                                                                         *)
(* 32-bit words are pairs <<hi, lo>> of 16-bit halves, because the model   *)
(* checker's integers are themselves 32 bits wide and the code's unsigned  *)
(* values and products do not fit in them.  The closure's variable         *)
(* hashValue is a JavaScript number, so it is a triple <<q, hi, lo>>       *)
(* standing for q * 2^32 + hi * 2^16 + lo.                                 *)
(***************************************************************************)
EXTENDS Integers, Sequences, FiniteSets

VARIABLES
    entry,            \* "main": the program; "sampler": weightedRandomDraw called on its own
    run,              \* 1: first execution of main, 2: an independent re-execution
    pc,               \* position in main / conductDraw / weightedRandomDraw
    players,          \* loadSnapshotData's result, in file order
    tiers,            \* PRIZE_TIERS
    response,         \* what the beacon request delivered
    nistRandomness,   \* the seed string handed to conductDraw
    hashValue,        \* the closure's state, <<q, hi, lo>>
    calls,            \* number of calls of random() so far
    eligiblePlayers,  \* conductDraw's shrinking pool
    results,          \* conductDraw's Map address -> [tier, amount]
    tierIdx,          \* index of the tier being drawn
    count,            \* weightedRandomDraw's parameter
    remaining,        \* weightedRandomDraw's copy of the pool
    winners,          \* weightedRandomDraw's result list
    i,                \* weightedRandomDraw's loop counter
    randomTicket,     \* the ticket of the last selection step
    winnerIndex,      \* the index the last scan found (0-based, -1: none)
    selected,         \* every participant pushed onto a winners list, in order
    firstPlayers,     \* the population of run 1, kept for comparison
    firstResults,     \* the mapping run 1 returned, kept for comparison
    fileWritten       \* generateOutput has written the result file

vars == <<entry, run, pc, players, tiers, response, nistRandomness, hashValue,
          calls, eligiblePlayers, results, tierIdx, count, remaining, winners,
          i, randomTicket, winnerIndex, selected, firstPlayers, firstResults,
          fileWritten>>

(***************************************************************************)
(* Bounds of the model.                                                    *)
(***************************************************************************)
MaxPlayers == 3
MaxTickets == 2
MaxWinners == 2

(***************************************************************************)
(* 16-bit and 32-bit arithmetic.                                           *)
(***************************************************************************)
Half == 256 * 256

RECURSIVE Pow2(_)
Pow2(n) == IF n = 0 THEN 1 ELSE 2 * Pow2(n - 1)

\* bit k of x
Bit(x, k) == (x \div Pow2(k)) % 2

\* ^ on 4-bit digits, tabulated from the bits
XorDigit ==
    [a \in 0..15 |-> [b \in 0..15 |->
        ((Bit(a, 0) + Bit(b, 0)) % 2) + 2 * ((Bit(a, 1) + Bit(b, 1)) % 2)
        + 4 * ((Bit(a, 2) + Bit(b, 2)) % 2) + 8 * ((Bit(a, 3) + Bit(b, 3)) % 2)]]

\* | on 4-bit digits: a | b = a + b - (a & b), and a & b = (a + b - (a ^ b)) / 2
OrDigit ==
    [a \in 0..15 |-> [b \in 0..15 |-> a + b - (a + b - XorDigit[a][b]) \div 2]]

\* ^ and | on 16-bit values, digit by digit
Xor16(a, b) ==
    XorDigit[a % 16][b % 16]
    + 16 * XorDigit[(a \div 16) % 16][(b \div 16) % 16]
    + 256 * XorDigit[(a \div 256) % 16][(b \div 256) % 16]
    + 4096 * XorDigit[a \div 4096][b \div 4096]

Or16(a, b) ==
    OrDigit[a % 16][b % 16]
    + 16 * OrDigit[(a \div 16) % 16][(b \div 16) % 16]
    + 256 * OrDigit[(a \div 256) % 16][(b \div 256) % 16]
    + 4096 * OrDigit[a \div 4096][b \div 4096]

\* a ^ b on 32-bit words
Xor32(a, b) == <<Xor16(a[1], b[1]), Xor16(a[2], b[2])>>

\* a | k for a small constant k (k < 2^16)
Or32(a, k) == <<a[1], Or16(a[2], k)>>

\* a >>> n, 0 < n < 16
Shr32(a, n) ==
    <<a[1] \div Pow2(n), (a[1] % Pow2(n)) * Pow2(16 - n) + a[2] \div Pow2(n)>>

\* a << n, 0 < n < 16, truncated to 32 bits
Shl32(a, n) ==
    <<(a[1] % Pow2(16 - n)) * Pow2(n) + a[2] \div Pow2(16 - n),
      (a[2] % Pow2(16 - n)) * Pow2(n)>>

\* (a + b) mod 2^32
Add32(a, b) ==
    <<(a[1] + b[1] + (a[2] + b[2]) \div Half) % Half, (a[2] + b[2]) % Half>>

\* (a - b) mod 2^32
Sub32(a, b) ==
    <<(a[1] - b[1] - (IF a[2] < b[2] THEN 1 ELSE 0) + Half) % Half,
      (a[2] - b[2] + Half) % Half>>

\* the 32-bit product of two 16-bit values, as <<hi, lo>>
Mul16(x, y) ==
    LET p0 == (x % 256) * y
        p1 == (x \div 256) * y
        low == p0 + (p1 % 256) * 256
    IN  <<low \div Half + p1 \div 256, low % Half>>

\* Math.imul(a, b): the low 32 bits of the product
Imul(a, b) ==
    LET ll == Mul16(a[2], b[2])
    IN  <<(ll[1] + Mul16(a[2], b[1])[2] + Mul16(a[1], b[2])[2]) % Half, ll[2]>>

\* ToInt32 / ToUint32 of a JavaScript number <<q, hi, lo>>: its low 32 bits
ToInt32(x) == <<x[2], x[3]>>

\* a 32-bit word read as a signed number <<q, hi, lo>>
Signed(w) == <<IF w[1] >= 32768 THEN -1 ELSE 0, w[1], w[2]>>

(***************************************************************************)
(* createSeededRandom                                                      *)
(***************************************************************************)
\* 0x6D2B79F5
IncrementHi == 27947
IncrementLo == 31221

\* one round of the seed loop: ((hashValue << 5) - hashValue + charCode) | 0
HashStep(h, c) == Add32(Sub32(Shl32(h, 5), h), <<0, c>>)

RECURSIVE HashFrom(_, _, _)
HashFrom(h, seed, k) ==
    IF k > Len(seed) THEN h
    ELSE LET n == HashStep(h, seed[k])
         IN  \* the test is always true; it makes the fold evaluate n before recursing
             IF n[1] >= 0 THEN HashFrom(n, seed, k + 1) ELSE n

\* a seed fold whose accumulator starts from a value of the process, not from 0
createSeededRandomFromRun(seed) == Signed(HashFrom(<<0, run>>, seed, 1))

\* the value of hashValue when createSeededRandom returns the closure
createSeededRandom(seed) == Signed(HashFrom(<<0, 0>>, seed, 1))

\* the increment with the sum cut back to a signed 32-bit value
AddIncrementWrapped(x) ==
    Signed(Add32(ToInt32(x), <<IncrementHi, IncrementLo>>))

\* hashValue += 0x6D2B79F5 on a JavaScript number: no reduction
AddIncrement(x) ==
    LET lo == x[3] + IncrementLo
        hi == x[2] + IncrementHi + lo \div Half
    IN  <<x[1] + hi \div Half, hi % Half, lo % Half>>

\* lines 90-92: the unsigned 32-bit numerator of the value random() returns
Mix(state) ==
    LET t0 == ToInt32(state)
        t1 == Imul(Xor32(t0, Shr32(t0, 15)), Or32(t0, 1))
        t2 == Xor32(t1, Add32(t1, Imul(Xor32(t1, Shr32(t1, 7)), Or32(t1, 61))))
    IN  Xor32(t2, Shr32(t2, 14))

\* Math.floor(random() * totalTickets) for random() = u / 2^32
TicketOf(u, totalTickets) ==
    (u[1] * totalTickets + (u[2] * totalTickets) \div Half) \div Half

(***************************************************************************)
(* Inputs.                                                                 *)
(***************************************************************************)
\* PRIZE_TIERS
PRIZE_TIERS ==
    << [name |-> "Grand Prize", winners |-> 5,  initPerWinner |-> 2500],
       [name |-> "Major Prize", winners |-> 20, initPerWinner |-> 1125],
       [name |-> "Minor Prize", winners |-> 50, initPerWinner |-> 300] >>

\* the configured list, and the same three tiers with smaller winner counts
TierLists ==
    {PRIZE_TIERS} \cup
    { [k \in 1..Len(PRIZE_TIERS) |-> [PRIZE_TIERS[k] EXCEPT !.winners = w[k]]] :
        w \in [1..Len(PRIZE_TIERS) -> 1..MaxWinners] }

\* a PlayerEntry: the address is an opaque unique identifier, here a number
Player(a, t) == [address |-> a, tickets |-> t]

\* populations with unique addresses, participant k of the file has address k
Populations ==
    UNION { { [k \in 1..n |-> Player(k, w[k])] : w \in [1..n -> 0..MaxTickets] } :
            n \in 0..MaxPlayers }

\* beacon output values, as sequences of character codes:
\* "test", "7B1D" and "deadbeef9"
SeedStrings ==
    { <<116, 101, 115, 116>>,
      <<55, 66, 49, 68>>,
      <<100, 101, 97, 100, 98, 101, 101, 102, 57>> }

\* what the request of fetchNISTRandomness can deliver
Responses ==
    { [kind |-> k, outputValue |-> <<>>] :
        k \in {"network_error", "unparsable", "no_pulse", "no_outputValue",
               "outputValue_not_string"} }
    \cup { [kind |-> "ok", outputValue |-> s] : s \in SeedStrings \cup {<<>>} }

\* values u (of u / 2^32) an arbitrary random() passed to weightedRandomDraw
\* returns: sixteen evenly spaced values and the last one below each next
ArbitraryValues ==
    { <<j * 4096, 0>> : j \in 0..15 } \cup { <<j * 4096 + 4095, 65535>> : j \in 0..15 }

NoSeed == <<-1>>
EmptyMap == [a \in {} |-> 0]

(***************************************************************************)
(* weightedRandomDraw                                                      *)
(***************************************************************************)
\* remaining.reduce((sum, p) => sum + p.tickets, 0)
RECURSIVE SumFrom(_, _)
SumFrom(pool, k) ==
    IF k > Len(pool) THEN 0 ELSE pool[k].tickets + SumFrom(pool, k + 1)

TotalTickets(pool) == SumFrom(pool, 1)

\* the loop without the early exit on a total of 0
DrawContinuesNoBreak(n, cnt, pool) == n < cnt /\ Len(pool) > 0

\* the loop running one selection too many
DrawContinuesOneMore(n, cnt, pool) ==
    n <= cnt /\ Len(pool) > 0 /\ TotalTickets(pool) # 0

\* lines 105-112: the loop runs another selection
DrawContinues(n, cnt, pool) ==
    n < cnt /\ Len(pool) > 0 /\ TotalTickets(pool) # 0

\* lines 118-127: the scan, with j and winnerIndex 0-based as in the code
RECURSIVE ScanFrom(_, _, _, _)
ScanFrom(pool, ticket, j, cumulative) ==
    IF j >= Len(pool) THEN -1
    ELSE IF ticket < cumulative + pool[j + 1].tickets THEN j
    ELSE ScanFrom(pool, ticket, j + 1, cumulative + pool[j + 1].tickets)

\* the scan with <= in place of <
RECURSIVE ScanFromLe(_, _, _, _)
ScanFromLe(pool, ticket, j, cumulative) ==
    IF j >= Len(pool) THEN -1
    ELSE IF ticket <= cumulative + pool[j + 1].tickets THEN j
    ELSE ScanFromLe(pool, ticket, j + 1, cumulative + pool[j + 1].tickets)

FindWinnerIndexLe(pool, ticket) == ScanFromLe(pool, ticket, 0, 0)

\* the scan comparing the ticket with each weight instead of the running sum
RECURSIVE ScanFromNoSum(_, _, _)
ScanFromNoSum(pool, ticket, j) ==
    IF j >= Len(pool) THEN -1
    ELSE IF ticket < pool[j + 1].tickets THEN j
    ELSE ScanFromNoSum(pool, ticket, j + 1)

FindWinnerIndexNoSum(pool, ticket) == ScanFromNoSum(pool, ticket, 0)

\* the scan stopping one participant short of the end of the pool
RECURSIVE ScanFromShort(_, _, _, _)
ScanFromShort(pool, ticket, j, cumulative) ==
    IF j >= Len(pool) - 1 THEN -1
    ELSE IF ticket < cumulative + pool[j + 1].tickets THEN j
    ELSE ScanFromShort(pool, ticket, j + 1, cumulative + pool[j + 1].tickets)

FindWinnerIndexShort(pool, ticket) == ScanFromShort(pool, ticket, 0, 0)

FindWinnerIndex(pool, ticket) == ScanFrom(pool, ticket, 0, 0)

\* the winner left in the pool
SpliceNone(pool, idx) == pool

\* remaining.splice(winnerIndex, 1)
Splice(pool, idx) ==
    [k \in 1..(Len(pool) - 1) |-> IF k <= idx THEN pool[k] ELSE pool[k + 1]]

(***************************************************************************)
(* conductDraw                                                             *)
(***************************************************************************)
\* players.filter((p) => p.tickets > 0)
FilterEligible(pool) == SelectSeq(pool, LAMBDA p : p.tickets > 0)

\* the tier's winners left in the eligible pool
RemoveWinnersNone(pool, won) == pool

\* line 164, for every winner of the tier
RemoveWinners(pool, won) ==
    SelectSeq(pool, LAMBDA p : \A k \in 1..Len(won) : p.address # won[k].address)

\* lines 159-162, for every winner of the tier
SetResults(map, won, tier) ==
    LET addrs == { won[k].address : k \in 1..Len(won) }
    IN  [a \in DOMAIN map \cup addrs |->
            IF a \in addrs
            THEN [tier |-> tier.name, amount |-> tier.initPerWinner]
            ELSE map[a]]

(***************************************************************************)
(* Initial states: main after loadSnapshotData, or weightedRandomDraw      *)
(* called on its own with a pool, a count and an arbitrary random().       *)
(***************************************************************************)
InitMain ==
    /\ entry = "main"
    /\ run = 1
    /\ pc = "fetch"
    /\ players \in Populations
    /\ tiers \in TierLists
    /\ response = [kind |-> "none", outputValue |-> <<>>]
    /\ nistRandomness = NoSeed
    /\ hashValue = <<0, 0, 0>>
    /\ calls = 0
    /\ eligiblePlayers = <<>>
    /\ results = EmptyMap
    /\ tierIdx = 0
    /\ count = 0
    /\ remaining = <<>>
    /\ winners = <<>>
    /\ i = 0
    /\ randomTicket = 0
    /\ winnerIndex = -1
    /\ selected = <<>>
    /\ firstPlayers = <<>>
    /\ firstResults = EmptyMap
    /\ fileWritten = FALSE

InitSampler ==
    /\ entry = "sampler"
    /\ run = 1
    /\ pc = "loop"
    /\ players \in Populations
    /\ tiers = <<>>
    /\ response = [kind |-> "none", outputValue |-> <<>>]
    /\ nistRandomness = NoSeed
    /\ hashValue = <<0, 0, 0>>
    /\ calls = 0
    /\ eligiblePlayers = <<>>
    /\ results = EmptyMap
    /\ tierIdx = 0
    /\ count \in 0..MaxWinners
    /\ remaining = players
    /\ winners = <<>>
    /\ i = 0
    /\ randomTicket = 0
    /\ winnerIndex = -1
    /\ selected = <<>>
    /\ firstPlayers = <<>>
    /\ firstResults = EmptyMap
    /\ fileWritten = FALSE

Init == InitMain \/ InitSampler

(***************************************************************************)
(* main                                                                    *)
(***************************************************************************)
\* line 252: the request resolves with outputValue or rejects; a rejection
\* ends main in its catch handler.  A re-execution queries the same pulse.
FetchNIST ==
    /\ pc = "fetch"
    /\ \E r \in Responses :
        /\ run = 2 => r = response
        /\ response' = r
        /\ IF r.kind = "ok"
           THEN nistRandomness' = r.outputValue /\ pc' = "conduct"
           ELSE nistRandomness' = nistRandomness /\ pc' = "failed"
    /\ UNCHANGED <<entry, run, players, tiers, hashValue, calls, eligiblePlayers,
                   results, tierIdx, count, remaining, winners, i, randomTicket,
                   winnerIndex, selected, firstPlayers, firstResults, fileWritten>>

\* lines 143-147: conductDraw is entered
ConductDraw ==
    /\ pc = "conduct"
    /\ hashValue' = createSeededRandom(nistRandomness)
    /\ results' = EmptyMap
    /\ eligiblePlayers' = FilterEligible(players)
    /\ tierIdx' = 1
    /\ pc' = "tier"
    /\ UNCHANGED <<entry, run, players, tiers, response, nistRandomness, calls,
                   count, remaining, winners, i, randomTicket, winnerIndex,
                   selected, firstPlayers, firstResults, fileWritten>>

\* line 156: weightedRandomDraw is called for the next tier
CallDraw ==
    /\ pc = "tier"
    /\ tierIdx <= Len(tiers)
    /\ count' = tiers[tierIdx].winners
    /\ remaining' = eligiblePlayers
    /\ winners' = <<>>
    /\ i' = 0
    /\ pc' = "loop"
    /\ UNCHANGED <<entry, run, players, tiers, response, nistRandomness, hashValue,
                   calls, eligiblePlayers, results, tierIdx, randomTicket,
                   winnerIndex, selected, firstPlayers, firstResults, fileWritten>>

\* line 115 in main: random() is the closure of createSeededRandom
RandomNext ==
    /\ pc = "loop"
    /\ entry = "main"
    /\ DrawContinues(i, count, remaining)
    /\ hashValue' = AddIncrement(hashValue)
    /\ calls' = calls + 1
    /\ randomTicket' = TicketOf(Mix(hashValue'), TotalTickets(remaining))
    /\ pc' = "scan"
    /\ UNCHANGED <<entry, run, players, tiers, response, nistRandomness,
                   eligiblePlayers, results, tierIdx, count, remaining, winners, i,
                   winnerIndex, selected, firstPlayers, firstResults, fileWritten>>

\* line 115 when weightedRandomDraw is given some other random()
RandomArbitrary ==
    /\ pc = "loop"
    /\ entry = "sampler"
    /\ DrawContinues(i, count, remaining)
    /\ calls' = calls + 1
    /\ \E u \in ArbitraryValues :
        randomTicket' = TicketOf(u, TotalTickets(remaining))
    /\ pc' = "scan"
    /\ UNCHANGED <<entry, run, players, tiers, response, nistRandomness, hashValue,
                   eligiblePlayers, results, tierIdx, count, remaining, winners, i,
                   winnerIndex, selected, firstPlayers, firstResults, fileWritten>>

\* lines 118-132 and the loop's i++
FindWinner ==
    /\ pc = "scan"
    /\ winnerIndex' = FindWinnerIndex(remaining, randomTicket)
    /\ IF winnerIndex' >= 0
       THEN /\ winners' = Append(winners, remaining[winnerIndex' + 1])
            /\ selected' = Append(selected, remaining[winnerIndex' + 1])
            /\ remaining' = Splice(remaining, winnerIndex')
       ELSE UNCHANGED <<winners, selected, remaining>>
    /\ i' = i + 1
    /\ pc' = "loop"
    /\ UNCHANGED <<entry, run, players, tiers, response, nistRandomness, hashValue,
                   calls, eligiblePlayers, results, tierIdx, count, randomTicket,
                   firstPlayers, firstResults, fileWritten>>

\* lines 135 and 158-167: the draw returns and conductDraw records the tier
RecordTier ==
    /\ pc = "loop"
    /\ entry = "main"
    /\ ~DrawContinues(i, count, remaining)
    /\ results' = SetResults(results, winners, tiers[tierIdx])
    /\ eligiblePlayers' = RemoveWinners(eligiblePlayers, winners)
    /\ tierIdx' = tierIdx + 1
    /\ pc' = "tier"
    /\ UNCHANGED <<entry, run, players, tiers, response, nistRandomness, hashValue,
                   calls, count, remaining, winners, i, randomTicket, winnerIndex,
                   selected, firstPlayers, firstResults, fileWritten>>

\* line 135 when weightedRandomDraw was called on its own
SamplerReturn ==
    /\ pc = "loop"
    /\ entry = "sampler"
    /\ ~DrawContinues(i, count, remaining)
    /\ pc' = "returned"
    /\ UNCHANGED <<entry, run, players, tiers, response, nistRandomness, hashValue,
                   calls, eligiblePlayers, results, tierIdx, count, remaining,
                   winners, i, randomTicket, winnerIndex, selected, firstPlayers,
                   firstResults, fileWritten>>

\* lines 170 and 258: conductDraw returns and generateOutput writes the file
GenerateOutput ==
    /\ pc = "tier"
    /\ tierIdx > Len(tiers)
    /\ fileWritten' = TRUE
    /\ pc' = "done"
    /\ UNCHANGED <<entry, run, players, tiers, response, nistRandomness, hashValue,
                   calls, eligiblePlayers, results, tierIdx, count, remaining,
                   winners, i, randomTicket, winnerIndex, selected, firstPlayers,
                   firstResults>>

\* the population in another order: position k holds participant perm[k]
Reordered(pool, perm) == [k \in 1..Len(pool) |-> pool[perm[k]]]

Orderings(n) ==
    { f \in [1..n -> 1..n] : \A a, b \in 1..n : a # b => f[a] # f[b] }

\* the program is executed again, by anyone, as a new process
RunAgain(perm) ==
    /\ pc = "done"
    /\ run = 1
    /\ run' = 2
    /\ firstPlayers' = players
    /\ firstResults' = results
    /\ players' = Reordered(players, perm)
    /\ pc' = "fetch"
    /\ nistRandomness' = NoSeed
    /\ hashValue' = <<0, 0, 0>>
    /\ calls' = 0
    /\ eligiblePlayers' = <<>>
    /\ results' = EmptyMap
    /\ tierIdx' = 0
    /\ count' = 0
    /\ remaining' = <<>>
    /\ winners' = <<>>
    /\ i' = 0
    /\ randomTicket' = 0
    /\ winnerIndex' = -1
    /\ selected' = <<>>
    /\ fileWritten' = FALSE
    /\ UNCHANGED <<entry, tiers, response>>

\* ... on the same snapshot
Rerun == RunAgain([k \in 1..Len(players) |-> k])

\* ... on the snapshot with its rows in any order
Reorder == \E perm \in Orderings(Len(players)) : RunAgain(perm)

Step ==
    \/ FetchNIST
    \/ ConductDraw
    \/ CallDraw
    \/ RandomNext
    \/ RandomArbitrary
    \/ FindWinner
    \/ RecordTier
    \/ SamplerReturn
    \/ GenerateOutput

\* one execution of main, or one call of weightedRandomDraw
Next == Step

Spec == Init /\ [][Next]_vars

\* one execution and a second one on the same snapshot
NextRerun == Step \/ Rerun

SpecRerun == Init /\ [][NextRerun]_vars

\* one execution and a second one on the reordered snapshot
NextReorder == Step \/ Reorder

SpecReorder == Init /\ [][NextReorder]_vars

(***************************************************************************)
(* Vocabulary of the properties.                                           *)
(***************************************************************************)
Min(a, b) == IF a < b THEN a ELSE b
Max(a, b) == IF a < b THEN b ELSE a

\* number of participants of a population with weight > 0
EligibleCount(pool) == Cardinality({ k \in 1..Len(pool) : pool[k].tickets > 0 })

\* number of identifiers a mapping gives a tier name
WinnersIn(map, name) == Cardinality({ a \in DOMAIN map : map[a].tier = name })

\* sum of the configured winner counts of the tiers before tier k
RECURSIVE ConfiguredBefore(_)
ConfiguredBefore(k) ==
    IF k <= 1 THEN 0 ELSE tiers[k - 1].winners + ConfiguredBefore(k - 1)

\* number of identifiers recorded for the tiers before tier k
RecordedBefore(k) ==
    Cardinality({ a \in DOMAIN results :
                    \E j \in 1..(k - 1) : results[a].tier = tiers[j].name })

\* sum of the weights of the first n participants of a pool
RECURSIVE PrefixTickets(_, _)
PrefixTickets(pool, n) ==
    IF n = 0 THEN 0 ELSE PrefixTickets(pool, n - 1) + pool[n].tickets

\* a pool with p put back at 0-based index idx
InsertAt(pool, idx, p) ==
    [k \in 1..(Len(pool) + 1) |->
        IF k <= idx THEN pool[k] ELSE IF k = idx + 1 THEN p ELSE pool[k - 1]]

InDraw == entry = "main" /\ pc \in {"tier", "loop", "scan", "done"}

(***************************************************************************)
(* C1.  No double win: over a whole run no participant is selected more    *)
(* than once; a selected participant is out of the pool before the next    *)
(* selection, in the same tier and in every later tier, and every          *)
(* selection ends as a distinct entry of the returned mapping.             *)
(***************************************************************************)
NoDoubleWin ==
    /\ \A a, b \in 1..Len(selected) :
          a # b => selected[a].address # selected[b].address
    /\ pc \in {"loop", "scan"} =>
          \A k \in 1..Len(selected), m \in 1..Len(remaining) :
              remaining[m].address # selected[k].address
    /\ pc = "done" => Cardinality(DOMAIN results) = Len(selected)

\* a finished run with winners in two different tiers
TwoTiersHaveWinners ==
    /\ pc = "done"
    /\ \E a, b \in DOMAIN results : results[a].tier # results[b].tier

(***************************************************************************)
(* C2.  Zero-weight exclusion: no participant with 0 tickets is ever       *)
(* selected or recorded as a winner, in conductDraw and in                 *)
(* weightedRandomDraw called on a pool that holds such participants.       *)
(***************************************************************************)
ZeroWeightNeverSelected ==
    /\ \A k \in 1..Len(selected) : selected[k].tickets > 0
    /\ \A k \in 1..Len(players) :
          players[k].tickets = 0 => players[k].address \notin DOMAIN results

\* the sampler drew ticket 0 on a pool whose first member has weight 0
ZeroWeightPassedOver ==
    /\ entry = "sampler"
    /\ pc = "loop"
    /\ Len(winners) = 1
    /\ randomTicket = 0
    /\ Len(players) >= 2
    /\ players[1].tickets = 0

(***************************************************************************)
(* C3.  Exhaustion: when fewer participants are eligible than the tiers    *)
(* have places, every eligible participant wins, and the tiers are filled  *)
(* in order: tier k holds min(its count, what the earlier tiers' counts    *)
(* leave of the eligible population).                                      *)
(***************************************************************************)
ExhaustionFillsInOrder ==
    (pc = "done" /\
     EligibleCount(players) < ConfiguredBefore(Len(tiers) + 1)) =>
        /\ Cardinality(DOMAIN results) = EligibleCount(players)
        /\ \A k \in 1..Len(tiers) :
              WinnersIn(results, tiers[k].name) =
                  Min(tiers[k].winners,
                      Max(0, EligibleCount(players) - ConfiguredBefore(k)))

\* a finished run whose first tier is full and whose second is short, not empty
SecondTierShort ==
    /\ pc = "done"
    /\ EligibleCount(players) < ConfiguredBefore(Len(tiers) + 1)
    /\ WinnersIn(results, tiers[1].name) = tiers[1].winners
    /\ WinnersIn(results, tiers[2].name) > 0
    /\ WinnersIn(results, tiers[2].name) < tiers[2].winners

Malformed(r) ==
    /\ r.kind # "none"
    /\ ~(r.kind = "ok" /\ Len(r.outputValue) > 0)

(***************************************************************************)
(* C5.  A malformed or missing seed (request error, unparsable response,   *)
(* no pulse.outputValue, an outputValue that is not a non-empty string)    *)
(* fails the run before any draw state exists: the draw is never entered   *)
(* and no result file is written.                                          *)
(***************************************************************************)
MalformedSeedFailsFast ==
    Malformed(response) => (pc \in {"fetch", "conduct", "failed"} /\ ~fileWritten)

(***************************************************************************)
(* C6.  A tier asking for more winners than the remaining eligible         *)
(* population is no error: every tier drawn so far holds min(its count,    *)
(* the eligible participants the earlier tiers left), the run fails only   *)
(* in the beacon request, and it ends with every tier drawn.               *)
(***************************************************************************)
ShortTierIsNoError ==
    /\ InDraw =>
          \A k \in 1..Len(tiers) :
              k < tierIdx =>
                  WinnersIn(results, tiers[k].name) =
                      Min(tiers[k].winners,
                          EligibleCount(players) - RecordedBefore(k))
    /\ pc = "failed" => response.kind # "ok"
    /\ pc = "done" => tierIdx = Len(tiers) + 1

\* a finished run whose first tier is short but not empty
FirstTierShort ==
    /\ pc = "done"
    /\ WinnersIn(results, tiers[1].name) > 0
    /\ WinnersIn(results, tiers[1].name) < tiers[1].winners

\* seedState + n * 0x6D2B79F5, not reduced
ExactSum(seedState, n) ==
    LET lo == seedState[3] + n * IncrementLo
        hi == seedState[2] + n * IncrementHi + lo \div Half
    IN  <<seedState[1] + hi \div Half, hi % Half, lo % Half>>

SelectionIsFirstExceeding ==
    (pc = "loop" /\ i > 0) =>
        /\ winnerIndex >= 0
        /\ Len(winners) > 0
        /\ LET pool == InsertAt(remaining, winnerIndex, winners[Len(winners)])
           IN  /\ 0 <= randomTicket
               /\ randomTicket < PrefixTickets(pool, Len(pool))
               /\ \A j \in 0..(Len(pool) - 1) :
                     (/\ PrefixTickets(pool, j) <= randomTicket
                      /\ randomTicket < PrefixTickets(pool, j + 1)) <=> (j = winnerIndex)

\* a selection that passed over two participants, one of them of weight 0
SelectedThirdInPool ==
    /\ pc = "loop"
    /\ i = 1
    /\ winnerIndex = 2
    /\ \E k \in 1..2 : remaining[k].tickets = 0

(***************************************************************************)
(* C9.  As claimed: every reordering of the population other than the      *)
(* identity changes the winner mapping.                                    *)
(***************************************************************************)
ReorderingChangesOutcome ==
    (run = 2 /\ pc = "done" /\ players # firstPlayers) => results # firstResults

(***************************************************************************)
(* C9, amended.  A reordering of the population leaves the number of       *)
(* winners of every tier unchanged, and leaves the whole mapping unchanged *)
(* when it keeps the participants with weight > 0 in the same relative     *)
(* order; other reorderings may change the mapping.                        *)
(***************************************************************************)
ReorderingKeepsTierCounts ==
    (run = 2 /\ pc = "done") =>
        /\ \A k \in 1..Len(tiers) :
              WinnersIn(results, tiers[k].name) = WinnersIn(firstResults, tiers[k].name)
        /\ SelectSeq(players, LAMBDA p : p.tickets > 0)
             = SelectSeq(firstPlayers, LAMBDA p : p.tickets > 0)
           => results = firstResults

\* a reordered execution that returned another mapping
ReorderingChangedMapping ==
    /\ run = 2
    /\ pc = "done"
    /\ results # firstResults

\* calls of random() against selections made, a drawn ticket counting as pending
CallsMatchSelections ==
    calls = Len(selected) + (IF pc = "scan" THEN 1 ELSE 0)

\* a step that calls random() leaves the pool, the winners and the mapping alone
CallChangesOnlyStream ==
    calls' = calls + 1 =>
        UNCHANGED <<remaining, winners, eligiblePlayers, results, selected, i>>

(***************************************************************************)
(* C10.  The stream advances once per selection: between the steps of a    *)
(* draw the number of random() calls equals the number of selections made  *)
(* (one more while a drawn ticket awaits its scan), so a loop that stops   *)
(* on an empty or weightless pool consumes nothing; and a call changes     *)
(* only the stream state, not the pool or the winners.                     *)
(***************************************************************************)
StreamAdvancesOncePerSelection ==
    []CallsMatchSelections /\ [][CallChangesOnlyStream]_vars

\* the sampler stopped on a pool left with weightless members only
StoppedOnZeroTotal ==
    /\ entry = "sampler"
    /\ pc = "returned"
    /\ calls >= 1
    /\ i < count
    /\ Len(remaining) > 0

=============================================================================
